---- MODULE Spec2Model ----
(***************************************************************************)
(* Model of cloudflare-speed-cli's TLS handshake measurement               *)
(* (src/engine/tls.rs) and update checker (src/update.rs).                 *)
(*                                                                         *)
(* Spec     : NumTasks concurrent calls of measure_tls_handshake sharing   *)
(*            the process-wide crypto provider.                            *)
(* SpecUrl  : extract_host_port applied to bounded URLs.                   *)
(* SpecVer  : check_for_update / is_newer applied to bounded version tags. *)
(***************************************************************************)
EXTENDS Integers, Sequences, FiniteSets, TLC

VARIABLES
    \* ---- measure_tls_handshake, one entry per task ----
    pc,          \* position of each task in measure_tls_handshake
    hostname,    \* argument `hostname` (a sequence of characters)
    port,        \* argument `port`
    net,         \* how the task's target answers: "unreachable" | "tls_rejects" | "tls_ok"
    conn,        \* the TCP stream opened by the call: "none" | "open" | "closed"
    start,       \* `start`: the reading of Instant::now(), -1 before it is taken
    events,      \* per task, the operations initiated so far, in order
    result,      \* what the call returned
    installRes,  \* what install_default() returned to the task
    observed,    \* the provider ClientConfig::builder() saw
    provider,    \* the process-wide default crypto provider (0 = none)
    \* ---- extract_host_port ----
    url,         \* the URL text, by component
    hostPort,    \* the returned Option<(String, u16)>
    urlPc,
    \* ---- check_for_update ----
    tag,         \* the release feed's tag_name
    current,     \* CURRENT_VERSION
    update,      \* the returned Option<Option<String>>
    verPc

tlsVars == <<pc, hostname, port, net, conn, start, events, result, installRes, observed, provider>>
urlVars == <<url, hostPort, urlPc>>
verVars == <<tag, current, update, verPc>>
vars == <<tlsVars, urlVars, verVars>>

(***************************************************************************)
(* Bounds                                                                  *)
(***************************************************************************)
NumTasks == 2
\* longest port text of a URL
MaxPortLen == 5
\* longest tag_name of the release feed
MaxTagLen == 5

Tasks == 1..NumTasks

(***************************************************************************)
(* Generic helpers                                                         *)
(***************************************************************************)
SeqsUpTo(S, n) == UNION {[1..k -> S] : k \in 0..n}

Digits == {"0", "1", "2", "3", "4", "5", "6", "7", "8", "9"}

DigitVal(c) ==
    CASE c = "0" -> 0 [] c = "1" -> 1 [] c = "2" -> 2 [] c = "3" -> 3
      [] c = "4" -> 4 [] c = "5" -> 5 [] c = "6" -> 6 [] c = "7" -> 7
      [] c = "8" -> 8 [] c = "9" -> 9

RECURSIVE DecimalValue(_)
DecimalValue(s) ==
    IF s = <<>> THEN 0
    ELSE 10 * DecimalValue(SubSeq(s, 1, Len(s) - 1)) + DigitVal(s[Len(s)])

\* Whether the decimal text s denotes a number greater than the one max denotes.
RECURSIVE StripZeros(_)
StripZeros(s) == IF s # <<>> /\ Head(s) = "0" THEN StripZeros(Tail(s)) ELSE s

RECURSIVE DigitsGreater(_, _)
DigitsGreater(a, b) ==
    IF a = <<>> THEN FALSE
    ELSE IF DigitVal(Head(a)) # DigitVal(Head(b)) THEN DigitVal(Head(a)) > DigitVal(Head(b))
    ELSE DigitsGreater(Tail(a), Tail(b))

ExceedsDigits(s, max) ==
    LET t == StripZeros(s) IN
    Len(t) > Len(max) \/ (Len(t) = Len(max) /\ DigitsGreater(t, max))

(***************************************************************************)
(* measure_tls_handshake                                                   *)
(***************************************************************************)
\* The hostnames and ports the tasks are called with.
Hostnames == { <<"a", ".", "b">>, <<"a", " ", "b">> }
Ports == {443}

\* What the network does for a target: the TCP connect fails; the connect
\* succeeds and the TLS handshake fails; both succeed.
NetBehaviours == {"unreachable", "tls_rejects", "tls_ok"}

Letters == {"a", "b"}

\* ServerName::try_from(String): the syntax check of a server name. Labels are
\* made of letters, digits and hyphens after the first character, separated
\* by single dots; the name is not empty and does not end in a hyphen; any
\* other character is refused.
RECURSIVE DnsNameScan(_, _, _)
DnsNameScan(h, i, st) ==
    IF i > Len(h) THEN st \in {"subsequent", "next"}
    ELSE LET ch == h[i] IN
         IF ch = "." THEN st = "subsequent" /\ DnsNameScan(h, i + 1, "next")
         ELSE IF ch = "-" THEN st \in {"subsequent", "hyphen"} /\ DnsNameScan(h, i + 1, "hyphen")
         ELSE IF ch \in Letters \cup Digits THEN DnsNameScan(h, i + 1, "subsequent")
         ELSE FALSE

IsValidServerName(h) == DnsNameScan(h, 1, "start")

\* format!("{}:{}", hostname, port)
Addr(h, p) == <<h, p>>

NoResult == [kind |-> "none"]
\* .with_context(|| format!("TCP connection failed to {}", addr))
NetworkError(addr) == [kind |-> "NetworkError", context |-> "TCP connection failed to", subject |-> addr]
\* anyhow!("Invalid DNS name: {}", hostname)
InvalidNameError(h) == [kind |-> "InvalidNameError", context |-> "Invalid DNS name:", subject |-> h]
\* .with_context(|| format!("TLS handshake failed with {}", hostname))
HandshakeError(h) == [kind |-> "HandshakeError", context |-> "TLS handshake failed with", subject |-> h]

\* Variant: the interval is measured from the start of the call.
Elapsed_FromCallStart(ev, st) == ev

\* start.elapsed(): what has been initiated since the reading `start` was taken.
Elapsed(ev, st) == SubSeq(ev, st + 1, Len(ev))

TlsSummary(time, version, suite) ==
    [kind |-> "TlsSummary", handshake_time_ms |-> time,
     protocol_version |-> version, cipher_suite |-> suite]

ProtocolVersions == {"None", "TLSv1_3"}
CipherSuites == {"None", "TLS13_AES_128_GCM_SHA256"}

\* Variant: the stream is kept alive (leaked) when its owner goes away.
DropStream_Leak(c) == c

\* A TcpStream going out of scope (early return with `?`, the failed handshake
\* future, the dropped TlsStream, or the dropped future of an abandoned call).
DropStream(c) == IF c = "open" THEN "closed" ELSE c

\* rustls install_default(): sets the process-wide provider if none is set
\* (Ok), and otherwise leaves it alone and hands the argument back (Err).
install_default(cur, candidate) ==
    IF cur = 0 THEN [provider |-> candidate, res |-> "Ok"]
    ELSE [provider |-> cur, res |-> "Err"]

\* Variant: the Result is unwrapped, so an Err panics.
EnsureOutcome_Unwrap(res) == IF res = "Ok" THEN "config" ELSE "panicked"

\* `let _ = ...install_default();` : the Result is discarded.
EnsureOutcome(res) == "config"

TlsInit ==
    /\ pc = [t \in Tasks |-> "start"]
    /\ hostname \in [Tasks -> Hostnames]
    /\ port \in [Tasks -> Ports]
    /\ net \in [Tasks -> NetBehaviours]
    /\ conn = [t \in Tasks |-> "none"]
    /\ start = [t \in Tasks |-> -1]
    /\ events = [t \in Tasks |-> <<>>]
    /\ result = [t \in Tasks |-> NoResult]
    /\ installRes = [t \in Tasks |-> "none"]
    /\ observed = [t \in Tasks |-> 0]
    /\ provider = 0

\* ensure_crypto_provider()
ensure_crypto_provider(t) ==
    /\ pc[t] = "start"
    /\ LET r == install_default(provider, t) IN
         /\ provider' = r.provider
         /\ installRes' = [installRes EXCEPT ![t] = r.res]
         /\ pc' = [pc EXCEPT ![t] = EnsureOutcome(r.res)]
    /\ UNCHANGED <<hostname, port, net, conn, start, events, result, observed>>

\* RootCertStore, ClientConfig::builder() (which reads the process-wide
\* provider and panics without one), TlsConnector::from
BuildConnector(t) ==
    /\ pc[t] = "config"
    /\ observed' = [observed EXCEPT ![t] = provider]
    /\ pc' = [pc EXCEPT ![t] = IF provider = 0 THEN "panicked" ELSE "connect"]
    /\ UNCHANGED <<hostname, port, net, conn, start, events, result, installRes, provider>>

\* TcpStream::connect(&addr) is initiated; the task suspends on it.
ConnectStart(t) ==
    /\ pc[t] = "connect"
    /\ events' = [events EXCEPT ![t] = Append(@, "connect")]
    /\ pc' = [pc EXCEPT ![t] = "connecting"]
    /\ UNCHANGED <<hostname, port, net, conn, start, result, installRes, observed, provider>>

\* The connect completes with a stream.
ConnectOk(t) ==
    /\ pc[t] = "connecting"
    /\ net[t] # "unreachable"
    /\ conn' = [conn EXCEPT ![t] = "open"]
    /\ pc' = [pc EXCEPT ![t] = "validate"]
    /\ UNCHANGED <<hostname, port, net, start, events, result, installRes, observed, provider>>

\* Variant: the connect failure is reported with the handshake's context.
ConnectFail_WrongContext(t) ==
    /\ pc[t] = "connecting"
    /\ net[t] = "unreachable"
    /\ result' = [result EXCEPT ![t] = HandshakeError(hostname[t])]
    /\ pc' = [pc EXCEPT ![t] = "done"]
    /\ UNCHANGED <<hostname, port, net, conn, start, events, installRes, observed, provider>>

\* The connect fails: `?` returns the error with its context.
ConnectFail(t) ==
    /\ pc[t] = "connecting"
    /\ net[t] = "unreachable"
    /\ result' = [result EXCEPT ![t] = NetworkError(Addr(hostname[t], port[t]))]
    /\ pc' = [pc EXCEPT ![t] = "done"]
    /\ UNCHANGED <<hostname, port, net, conn, start, events, installRes, observed, provider>>

\* Variant: the conversion's error is not propagated.
ValidateName_Unchecked(t) ==
    /\ pc[t] = "validate"
    /\ events' = [events EXCEPT ![t] = Append(@, "name_check")]
    /\ pc' = [pc EXCEPT ![t] = "timer"]
    /\ UNCHANGED <<hostname, port, net, conn, start, result, installRes, observed, provider>>

\* hostname.to_string().try_into().map_err(..)?
ValidateName(t) ==
    /\ pc[t] = "validate"
    /\ events' = [events EXCEPT ![t] = Append(@, "name_check")]
    /\ IF IsValidServerName(hostname[t])
       THEN /\ pc' = [pc EXCEPT ![t] = "timer"]
            /\ UNCHANGED <<conn, result>>
       ELSE /\ result' = [result EXCEPT ![t] = InvalidNameError(hostname[t])]
            /\ conn' = [conn EXCEPT ![t] = DropStream(@)]
            /\ pc' = [pc EXCEPT ![t] = "done"]
    /\ UNCHANGED <<hostname, port, net, start, installRes, observed, provider>>

\* let start = Instant::now(); connector.connect(server_name, tcp_stream) is
\* initiated; the task suspends on it.
HandshakeStart(t) ==
    /\ pc[t] = "timer"
    /\ start' = [start EXCEPT ![t] = Len(events[t])]
    /\ events' = [events EXCEPT ![t] = Append(@, "handshake")]
    /\ pc' = [pc EXCEPT ![t] = "handshaking"]
    /\ UNCHANGED <<hostname, port, net, conn, result, installRes, observed, provider>>

\* Variant: a failed handshake is retried from the TCP connect.
HandshakeFail_Retry(t) ==
    /\ pc[t] = "handshaking"
    /\ net[t] = "tls_rejects"
    /\ conn' = [conn EXCEPT ![t] = DropStream(@)]
    /\ pc' = [pc EXCEPT ![t] = "connect"]
    /\ UNCHANGED <<hostname, port, net, start, events, result, installRes, observed, provider>>

\* Variant: a failed handshake still yields a summary of what was measured.
HandshakeFail_Partial(t) ==
    /\ pc[t] = "handshaking"
    /\ net[t] = "tls_rejects"
    /\ result' = [result EXCEPT ![t] = TlsSummary(Elapsed(events[t], start[t]), "None", "None")]
    /\ conn' = [conn EXCEPT ![t] = DropStream(@)]
    /\ pc' = [pc EXCEPT ![t] = "done"]
    /\ UNCHANGED <<hostname, port, net, start, events, installRes, observed, provider>>

\* The handshake fails: the connect future drops the stream, `?` returns.
HandshakeFail(t) ==
    /\ pc[t] = "handshaking"
    /\ net[t] = "tls_rejects"
    /\ result' = [result EXCEPT ![t] = HandshakeError(hostname[t])]
    /\ conn' = [conn EXCEPT ![t] = DropStream(@)]
    /\ pc' = [pc EXCEPT ![t] = "done"]
    /\ UNCHANGED <<hostname, port, net, start, events, installRes, observed, provider>>

\* The handshake succeeds; start.elapsed() is read; the session info is
\* extracted; the summary is returned and tls_stream goes out of scope.
HandshakeOk(t) ==
    /\ pc[t] = "handshaking"
    /\ net[t] = "tls_ok"
    /\ \E v \in ProtocolVersions, cs \in CipherSuites :
         result' = [result EXCEPT ![t] = TlsSummary(Elapsed(events[t], start[t]), v, cs)]
    /\ conn' = [conn EXCEPT ![t] = DropStream(@)]
    /\ pc' = [pc EXCEPT ![t] = "done"]
    /\ UNCHANGED <<hostname, port, net, start, events, installRes, observed, provider>>

\* The caller abandons the call at a suspension point: the future and
\* everything it owns are dropped.
Abandon(t) ==
    /\ pc[t] \in {"connecting", "handshaking"}
    /\ conn' = [conn EXCEPT ![t] = DropStream(@)]
    /\ pc' = [pc EXCEPT ![t] = "cancelled"]
    /\ UNCHANGED <<hostname, port, net, start, events, result, installRes, observed, provider>>

\* The variables of the other specifications, at rest.
UrlParked == url = <<>> /\ hostPort = {} /\ urlPc = "off"
VerParked == tag = <<>> /\ current = <<>> /\ update = {} /\ verPc = "off"
TlsParked ==
    /\ pc = <<>> /\ hostname = <<>> /\ port = <<>> /\ net = <<>> /\ conn = <<>>
    /\ start = <<>> /\ events = <<>> /\ result = <<>> /\ installRes = <<>>
    /\ observed = <<>> /\ provider = 0

Init == TlsInit /\ UrlParked /\ VerParked

Next ==
    \/ \E t \in Tasks : ensure_crypto_provider(t) /\ UNCHANGED <<urlVars, verVars>>
    \/ \E t \in Tasks : BuildConnector(t) /\ UNCHANGED <<urlVars, verVars>>
    \/ \E t \in Tasks : ConnectStart(t) /\ UNCHANGED <<urlVars, verVars>>
    \/ \E t \in Tasks : ConnectOk(t) /\ UNCHANGED <<urlVars, verVars>>
    \/ \E t \in Tasks : ConnectFail(t) /\ UNCHANGED <<urlVars, verVars>>
    \/ \E t \in Tasks : ValidateName(t) /\ UNCHANGED <<urlVars, verVars>>
    \/ \E t \in Tasks : HandshakeStart(t) /\ UNCHANGED <<urlVars, verVars>>
    \/ \E t \in Tasks : HandshakeFail(t) /\ UNCHANGED <<urlVars, verVars>>
    \/ \E t \in Tasks : HandshakeOk(t) /\ UNCHANGED <<urlVars, verVars>>
    \/ \E t \in Tasks : Abandon(t) /\ UNCHANGED <<urlVars, verVars>>

Spec == Init /\ [][Next]_vars

(***************************************************************************)
(* Properties of measure_tls_handshake                                     *)
(***************************************************************************)
Ended(t) == pc[t] \in {"done", "cancelled", "panicked"}
Returned(t) == pc[t] = "done"
Occurs(ev, e) == \E i \in 1..Len(ev) : ev[i] = e
Count(ev, e) == Cardinality({i \in 1..Len(ev) : ev[i] = e})

\* C1 (as stated): a call whose hostname is not a valid server name never
\* initiates a TCP connect, and when it returns it returns InvalidNameError.
C1_NoConnectForInvalidName ==
    \A t \in Tasks :
        ~IsValidServerName(hostname[t]) =>
            /\ ~Occurs(events[t], "connect")
            /\ Returned(t) => result[t].kind = "InvalidNameError"

\* C1 (amended): a call whose hostname is not a valid server name never
\* starts the timer or the TLS handshake; it initiates the TCP connect before
\* the name check, and it returns InvalidNameError naming the hostname when
\* the connect succeeded and NetworkError when the connect failed.
C1_InvalidNameAfterConnect ==
    \A t \in Tasks :
        ~IsValidServerName(hostname[t]) =>
            /\ ~Occurs(events[t], "handshake")
            /\ start[t] = -1
            /\ Occurs(events[t], "name_check") => events[t] = <<"connect", "name_check">>
            /\ Returned(t) =>
                 IF net[t] = "unreachable"
                 THEN result[t].kind = "NetworkError" /\ events[t] = <<"connect">>
                 ELSE /\ result[t] = [kind |-> "InvalidNameError",
                                      context |-> "Invalid DNS name:",
                                      subject |-> hostname[t]]
                      /\ events[t] = <<"connect", "name_check">>

C1_Witness ==
    \E t \in Tasks :
        /\ ~IsValidServerName(hostname[t])
        /\ Returned(t)
        /\ result[t].kind = "InvalidNameError"
        /\ events[t] = <<"connect", "name_check">>

\* C2: the timer is started only after the TCP connect has completed and the
\* name check has passed; the handshake is the only operation initiated after
\* the timer's start, and the reported handshake_time_ms covers the handshake
\* alone.
C2_OnlyHandshakeTimed ==
    \A t \in Tasks :
        /\ start[t] # -1 =>
             /\ IsValidServerName(hostname[t])
             /\ conn[t] # "none"
             /\ SubSeq(events[t], 1, start[t]) = <<"connect", "name_check">>
             /\ SubSeq(events[t], start[t] + 1, Len(events[t])) = <<"handshake">>
        /\ result[t].kind = "TlsSummary" =>
             /\ start[t] # -1
             /\ result[t].handshake_time_ms = <<"handshake">>

C2_Witness ==
    \E t \in Tasks :
        /\ Returned(t)
        /\ result[t].kind = "TlsSummary"
        /\ events[t] = <<"connect", "name_check", "handshake">>

\* What holds of the provider in every state: no task has panicked, every
\* task past ensure_crypto_provider finds a provider installed and builds its
\* configuration on it, and exactly one install_default has returned Ok.
C3_State ==
    /\ \A t \in Tasks :
         /\ pc[t] # "panicked"
         /\ pc[t] # "start" => provider # 0 /\ installRes[t] \in {"Ok", "Err"}
         /\ pc[t] \notin {"start", "config"} => observed[t] # 0 /\ observed[t] = provider
    /\ Cardinality({t \in Tasks : installRes[t] = "Ok"}) = (IF provider = 0 THEN 0 ELSE 1)
    /\ provider # 0 => installRes[provider] = "Ok"

\* C3: with several tasks calling ensure_crypto_provider in any interleaving,
\* no call panics, exactly one install_default takes effect, the installed
\* provider is never replaced, and every task that is past the call observes
\* an installed provider.
C3_InstallOnce == [](C3_State) /\ [][provider # 0 => provider' = provider]_vars

C3_Witness ==
    \E t1, t2 \in Tasks :
        /\ installRes[t1] = "Ok" /\ installRes[t2] = "Err"
        /\ observed[t1] = t1 /\ observed[t2] = t1
        /\ Returned(t1) /\ Returned(t2)

\* C4: when the target accepts the TCP connect and the hostname is valid but
\* the handshake fails, the call returns HandshakeError naming the hostname,
\* with no summary and no elapsed time in it; a TlsSummary is returned only
\* after connect, name check and handshake all succeeded.
C4_HandshakeFailureNoSummary ==
    \A t \in Tasks :
        /\ (Returned(t) /\ net[t] = "tls_rejects" /\ IsValidServerName(hostname[t])) =>
             /\ result[t] = [kind |-> "HandshakeError",
                             context |-> "TLS handshake failed with",
                             subject |-> hostname[t]]
             /\ "handshake_time_ms" \notin DOMAIN result[t]
        /\ result[t].kind = "TlsSummary" =>
             /\ net[t] = "tls_ok"
             /\ IsValidServerName(hostname[t])
             /\ events[t] = <<"connect", "name_check", "handshake">>

C4_Witness ==
    \E t \in Tasks :
        /\ Returned(t)
        /\ net[t] = "tls_rejects"
        /\ result[t].kind = "HandshakeError"
        /\ events[t] = <<"connect", "name_check", "handshake">>

\* C5: when the TCP connect fails the call returns NetworkError carrying the
\* address, whatever the hostname, and the TLS handshake is never started.
C5_ConnectFailureIsNetworkError ==
    \A t \in Tasks :
        net[t] = "unreachable" =>
            /\ ~Occurs(events[t], "handshake")
            /\ ~Occurs(events[t], "name_check")
            /\ result[t].kind \in {"none", "NetworkError"}
            /\ Returned(t) => result[t] = [kind |-> "NetworkError",
                                           context |-> "TCP connection failed to",
                                           subject |-> <<hostname[t], port[t]>>]

C5_Witness ==
    \E t \in Tasks :
        /\ ~IsValidServerName(hostname[t])
        /\ net[t] = "unreachable"
        /\ Returned(t)
        /\ result[t].kind = "NetworkError"

\* C7: once a call has ended (returned a summary or any error, or was
\* abandoned at a suspension point) the TCP connection it opened is not open.
C7_NoOpenConnectionAfterExit ==
    \A t \in Tasks : Ended(t) => conn[t] # "open"

C7_Witness ==
    \E t \in Tasks :
        /\ Returned(t)
        /\ result[t].kind = "InvalidNameError"
        /\ conn[t] = "closed"

\* The conceptual state of a call.
Phase(t) ==
    CASE pc[t] \in {"start", "config", "connect", "connecting", "panicked"} -> "Unconnected"
      [] pc[t] \in {"validate", "timer"} -> "TcpConnected"
      [] pc[t] = "handshaking" -> "HandshakeStarted"
      [] pc[t] = "cancelled" ->
            IF Occurs(events[t], "handshake") THEN "HandshakeStarted" ELSE "Unconnected"
      [] pc[t] = "done" ->
            CASE result[t].kind = "NetworkError" -> "Unconnected"
              [] result[t].kind = "InvalidNameError" -> "TcpConnected"
              [] result[t].kind = "HandshakeError" -> "HandshakeFailed"
              [] result[t].kind = "TlsSummary" -> "HandshakeComplete"

Rank(ph) ==
    CASE ph = "Unconnected" -> 0
      [] ph = "TcpConnected" -> 1
      [] ph = "HandshakeStarted" -> 2
      [] ph \in {"HandshakeComplete", "HandshakeFailed"} -> 3

\* C10: every step of a call keeps its state or moves it to the next one of
\* Unconnected, TcpConnected, HandshakeStarted, HandshakeComplete/Failed;
\* a terminal state is never left, an ended call takes no further step, and a
\* call initiates at most one TCP connect and at most one handshake.
C10_LinearTraversal ==
    [][\A t \in Tasks :
          /\ Rank(Phase(t))' \in {Rank(Phase(t)), Rank(Phase(t)) + 1}
          /\ Rank(Phase(t)) = 3 => Phase(t)' = Phase(t)
          /\ Ended(t) => pc'[t] = pc[t] /\ events'[t] = events[t]
          /\ Count(events'[t], "connect") <= 1
          /\ Count(events'[t], "handshake") <= 1]_vars

C10_Witness ==
    \E t1, t2 \in Tasks :
        /\ Phase(t1) = "HandshakeComplete"
        /\ Phase(t2) = "HandshakeFailed"

(***************************************************************************)
(* extract_host_port                                                       *)
(*                                                                         *)
(* A URL is given by its components as they stand in the text:             *)
(*   scheme   the text before ":" ("" when the text has no scheme)         *)
(*   host     the characters of the host (<<>> when there is none)         *)
(*   port     {} when no ":" follows the host, else {the text after ":"}   *)
(* An Option is a set with at most one element.                            *)
(***************************************************************************)
Schemes == {"", "https", "wss", "http", "ws", "ftp", "foo"}
UrlHosts == {<<>>, <<"h">>}
PortDigits == {"0", "3", "4", "8"}
PortTexts == SeqsUpTo(PortDigits, MaxPortLen)

Urls ==
    {u \in [scheme : Schemes, host : UrlHosts, port : {{}} \cup {{p} : p \in PortTexts}] :
        u.host = <<>> => u.port = {}}

U16Max == 65535

SpecialSchemes == {"http", "https", "ws", "wss", "ftp", "file"}

\* The url crate's default port of a scheme.
DefaultPort(scheme) ==
    CASE scheme \in {"http", "ws"} -> {80}
      [] scheme \in {"https", "wss"} -> {443}
      [] scheme = "ftp" -> {21}
      [] OTHER -> {}

\* The port text of a URL as a number: none for an empty text, an error above
\* u16::MAX.
PortNumber(portOpt) ==
    IF portOpt = {} THEN [ok |-> TRUE, port |-> {}]
    ELSE LET text == CHOOSE p \in portOpt : TRUE IN
         IF text = <<>> THEN [ok |-> TRUE, port |-> {}]
         ELSE IF DecimalValue(text) > U16Max THEN [ok |-> FALSE, port |-> {}]
         ELSE [ok |-> TRUE, port |-> {DecimalValue(text)}]

\* reqwest::Url::parse(url): fails without a scheme, with an invalid port, or
\* with an empty host under a special scheme; a port equal to the scheme's
\* default is not kept.
UrlParse(u) ==
    LET pn == PortNumber(u.port) IN
    IF u.scheme = "" \/ ~pn.ok \/ (u.scheme \in SpecialSchemes /\ u.host = <<>>)
    THEN [ok |-> FALSE, scheme |-> u.scheme, host |-> {}, port |-> {}]
    ELSE [ok |-> TRUE, scheme |-> u.scheme,
          host |-> IF u.host = <<>> THEN {} ELSE {u.host},
          port |-> IF pn.port = DefaultPort(u.scheme) THEN {} ELSE pn.port]

\* Variant: only the explicit port is consulted.
port_only(parsed) == parsed.port

\* Url::port_or_known_default()
port_or_known_default(parsed) ==
    IF parsed.port # {} THEN parsed.port ELSE DefaultPort(parsed.scheme)

\* Option::unwrap_or
unwrap_or(opt, default) == IF opt = {} THEN default ELSE CHOOSE x \in opt : TRUE

extract_host_port(u) ==
    LET parsed == UrlParse(u) IN
    IF ~parsed.ok \/ parsed.host = {} THEN {}
    ELSE {<<unwrap_or(parsed.host, <<>>), unwrap_or(port_or_known_default(parsed), 443)>>}

UrlInit == url \in Urls /\ hostPort = {} /\ urlPc = "call"

ExtractHostPort ==
    /\ urlPc = "call"
    /\ hostPort' = extract_host_port(url)
    /\ urlPc' = "done"
    /\ UNCHANGED url

InitUrl == UrlInit /\ TlsParked /\ VerParked
NextUrl == ExtractHostPort /\ UNCHANGED <<tlsVars, verVars>>
SpecUrl == InitUrl /\ [][NextUrl]_vars

\* The URLs that are well formed and have a host, read off the text.
WellFormedWithHost(u) ==
    /\ u.scheme # ""
    /\ u.host # <<>>
    /\ \A p \in u.port : DecimalValue(p) <= 65535

HasExplicitPort(u) == \E p \in u.port : p # <<>>
ExplicitPort(u) == DecimalValue(CHOOSE p \in u.port : TRUE)

\* C6 (as stated): for a well-formed URL with a host the port returned is the
\* explicit port when there is one, and otherwise 443 for a secure scheme, 80
\* for any other recognized scheme, 443 for an unrecognized scheme.
C6_PortSelection ==
    (urlPc = "done" /\ WellFormedWithHost(url)) =>
        hostPort = {<<url.host,
                      IF HasExplicitPort(url) THEN ExplicitPort(url)
                      ELSE IF url.scheme \in {"https", "wss"} THEN 443
                      ELSE IF url.scheme \in {"http", "ws", "ftp"} THEN 80
                      ELSE 443>>}

\* C6 (amended): for a well-formed URL with a host the port returned is the
\* explicit port when there is one, and otherwise the scheme's known default
\* (443 for https and wss, 80 for http and ws, 21 for ftp), and 443 for a
\* scheme without a known default.
C6_PortSelectionKnownDefaults ==
    (urlPc = "done" /\ WellFormedWithHost(url)) =>
        hostPort = {<<url.host,
                      IF HasExplicitPort(url) THEN ExplicitPort(url)
                      ELSE IF url.scheme \in {"https", "wss"} THEN 443
                      ELSE IF url.scheme \in {"http", "ws"} THEN 80
                      ELSE IF url.scheme = "ftp" THEN 21
                      ELSE 443>>}

C6_Witness ==
    /\ urlPc = "done"
    /\ url = [scheme |-> "ftp", host |-> <<"h">>, port |-> {}]
    /\ hostPort = {<<(<<"h">>), 21>>}

\* C9: every (host, port) pair returned has port > 0.
C9_PortPositive ==
    \A hp \in hostPort : hp[2] > 0

(***************************************************************************)
(* check_for_update and is_newer                                           *)
(***************************************************************************)
TagChars == {"v", "1", "2", ".", "x"}
Tags == SeqsUpTo(TagChars, MaxTagLen)

\* env!("CARGO_PKG_VERSION") of the builds considered.
CurrentVersions == { <<"1", ".", "1", ".", "1">>, <<"1", ".", "2", ".", "0">>, <<"2", ".", "0", ".", "1">> }

\* u32::MAX, by its decimal digits
U32MaxDigits == <<"4", "2", "9", "4", "9", "6", "7", "2", "9", "5">>

\* str::trim_start_matches(c)
RECURSIVE trim_start_matches(_, _)
trim_start_matches(s, c) ==
    IF s # <<>> /\ Head(s) = c THEN trim_start_matches(Tail(s), c) ELSE s

\* str::split(sep), collected: the pieces between the separators.
RECURSIVE split(_, _)
split(s, sep) ==
    IF \A i \in 1..Len(s) : s[i] # sep THEN <<s>>
    ELSE LET i == CHOOSE j \in 1..Len(s) : s[j] = sep /\ \A k \in 1..(j - 1) : s[k] # sep IN
         <<SubSeq(s, 1, i - 1)>> \o split(SubSeq(s, i + 1, Len(s)), sep)

\* p.parse::<u32>().ok()
parse_u32(p) ==
    IF p = <<>> \/ (\E i \in 1..Len(p) : p[i] \notin Digits) THEN {}
    ELSE IF ExceedsDigits(p, U32MaxDigits) THEN {}
    ELSE {DecimalValue(p)}

\* .filter_map(|p| p.parse().ok()).collect()
RECURSIVE filter_map_parse(_)
filter_map_parse(pieces) ==
    IF pieces = <<>> THEN <<>>
    ELSE LET n == parse_u32(Head(pieces)) IN
         (IF n = {} THEN <<>> ELSE <<CHOOSE x \in n : TRUE>>) \o filter_map_parse(Tail(pieces))

\* parts.get(i).copied().unwrap_or(0), with i counted from 1
get_or_zero(parts, i) == IF i <= Len(parts) THEN parts[i] ELSE 0

\* the closure `parse` of is_newer
parse(s) ==
    LET parts == filter_map_parse(split(s, ".")) IN
    <<get_or_zero(parts, 1), get_or_zero(parts, 2), get_or_zero(parts, 3)>>

\* (u32, u32, u32) ordering
TupleGreater(a, b) ==
    \/ a[1] > b[1]
    \/ a[1] = b[1] /\ a[2] > b[2]
    \/ a[1] = b[1] /\ a[2] = b[2] /\ a[3] > b[3]

is_newer(latest, cur) == TupleGreater(parse(latest), parse(cur))

VerInit == tag \in Tags /\ current \in CurrentVersions /\ update = {} /\ verPc = "call"

\* The request, the JSON body or the tag_name fails: None.
CheckForUpdateFails ==
    /\ verPc = "call"
    /\ update' = {}
    /\ verPc' = "done"
    /\ UNCHANGED <<tag, current>>

\* The feed answers with tag_name = tag.
CheckForUpdate ==
    /\ verPc = "call"
    /\ LET latest == trim_start_matches(tag, "v") IN
         update' = {IF is_newer(latest, current) THEN {latest} ELSE {}}
    /\ verPc' = "answered"
    /\ UNCHANGED <<tag, current>>

InitVer == VerInit /\ TlsParked /\ UrlParked
NextVer ==
    \/ CheckForUpdateFails /\ UNCHANGED <<tlsVars, urlVars>>
    \/ CheckForUpdate /\ UNCHANGED <<tlsVars, urlVars>>
SpecVer == InitVer /\ [][NextVer]_vars

\* The (major, minor, patch) triple of a version text, each component read
\* from its own dot-separated position (0 where that position is missing or
\* is not a number).
PositionalComponent(pieces, i) ==
    IF i <= Len(pieces) /\ parse_u32(pieces[i]) # {}
    THEN CHOOSE x \in parse_u32(pieces[i]) : TRUE
    ELSE 0

PositionalTriple(s) ==
    LET pieces == split(s, ".") IN
    <<PositionalComponent(pieces, 1), PositionalComponent(pieces, 2), PositionalComponent(pieces, 3)>>

\* C8: the update checker reports a newer version exactly when the positional
\* (major, minor, patch) triple of the latest version is greater than that of
\* the current version.
C8_TupleComparison ==
    verPc = "answered" =>
        LET latest == trim_start_matches(tag, "v") IN
        (update = {{latest}}) <=> TupleGreater(PositionalTriple(latest), PositionalTriple(current))

====
